---- MODULE Spec2Model ----
(***************************************************************************)
(* ArxivSpider (daily_arxiv/spiders/arxiv.py): the listing-page parser.    *)
(* parse() is a Python generator: its first resumption runs the whole      *)
(* section walk, the extraction, the dedup against self.seen_ids and the   *)
(* three sorts, and returns the first record; every later resumption       *)
(* strips and returns the next record.                                     *)
(***************************************************************************)
EXTENDS Integers, Sequences, FiniteSets, TLC

(***************************************************************************)
(* Python str primitives, on TLA+ strings.                                 *)
(***************************************************************************)
\* s[i-1:j] with Python's clamping of the bounds
Slice(s, i, j) ==
  LET lo == IF i < 1 THEN 1 ELSE i
      hi == IF j > Len(s) THEN Len(s) ELSE j
  IN IF lo > hi THEN "" ELSE SubSeq(s, lo, hi)

CharAt(s, i) == Slice(s, i, i)

Drop(s, n) == Slice(s, n + 1, Len(s))

StartsWith(s, p) == Len(s) >= Len(p) /\ Slice(s, 1, Len(p)) = p

\* the Python operator "sub in s"
Contains(sub, s) ==
  \E i \in 1..(Len(s) - Len(sub) + 1) : Slice(s, i, i + Len(sub) - 1) = sub

\* str.find(sub, start): the least index >= from at which sub occurs, 0 if none
RECURSIVE Find(_, _, _)
Find(sub, s, from) ==
  IF from + Len(sub) - 1 > Len(s) THEN 0
  ELSE IF Slice(s, from, from + Len(sub) - 1) = sub THEN from
  ELSE Find(sub, s, from + 1)

UpperChars == "ABCDEFGHIJKLMNOPQRSTUVWXYZ"
LowerChars == "abcdefghijklmnopqrstuvwxyz"
DigitChars == "0123456789"
\* the characters of the model's texts in code point order (str comparison is by code point)
CodePoints == " (),-./0123456789:;ABCDEFGHIJKLMNOPQRSTUVWXYZ_abcdefghijklmnopqrstuvwxyz"

CharsOf(s) == {CharAt(s, i) : i \in 1..Len(s)}
UpperSet == CharsOf(UpperChars)
LowerSet == CharsOf(LowerChars)
DigitSet == CharsOf(DigitChars)
LowerOf == [c \in UpperSet |-> CharAt(LowerChars, Find(c, UpperChars, 1))]
OrdOf == [c \in CharsOf(CodePoints) |-> Find(c, CodePoints, 1)]

IsUpper(c) == c \in UpperSet
IsLower(c) == c \in LowerSet
IsDigit(c) == c \in DigitSet
Ord(c) == OrdOf[c]

\* str.lower() on one character
LowerChar(c) == IF IsUpper(c) THEN LowerOf[c] ELSE c

RECURSIVE Lower(_)
Lower(s) == IF s = "" THEN "" ELSE LowerChar(CharAt(s, 1)) \o Lower(Drop(s, 1))

RECURSIVE LStrip(_)
LStrip(s) == IF s # "" /\ CharAt(s, 1) = " " THEN LStrip(Drop(s, 1)) ELSE s

RECURSIVE RStrip(_)
RStrip(s) == IF s # "" /\ CharAt(s, Len(s)) = " " THEN RStrip(Slice(s, 1, Len(s) - 1)) ELSE s

Strip(s) == RStrip(LStrip(s))

\* "".join(parts)
RECURSIVE Concat(_)
Concat(parts) == IF parts = <<>> THEN "" ELSE Head(parts) \o Concat(Tail(parts))

\* sep.join(parts)
RECURSIVE Join(_, _)
Join(sep, parts) ==
  IF parts = <<>> THEN ""
  ELSE IF Len(parts) = 1 THEN Head(parts)
  ELSE Head(parts) \o sep \o Join(sep, Tail(parts))

\* the first occurrence only: str.replace(old, new, 1)
ReplaceFirst(s, old, new) ==
  LET i == Find(old, s, 1)
  IN IF i = 0 THEN s ELSE Slice(s, 1, i - 1) \o new \o Drop(s, i + Len(old) - 1)

\* str.replace(old, new): every non-overlapping occurrence, left to right
RECURSIVE Replace(_, _, _)
Replace(s, old, new) ==
  LET i == Find(old, s, 1)
  IN IF i = 0 THEN s
     ELSE Slice(s, 1, i - 1) \o new \o Replace(Drop(s, i + Len(old) - 1), old, new)

\* a < b on Python strings
RECURSIVE StrLess(_, _)
StrLess(a, b) ==
  IF b = "" THEN FALSE
  ELSE IF a = "" THEN TRUE
  ELSE IF CharAt(a, 1) = CharAt(b, 1) THEN StrLess(Drop(a, 1), Drop(b, 1))
  ELSE Ord(CharAt(a, 1)) < Ord(CharAt(b, 1))

AllDigits(s) == \A i \in 1..Len(s) : IsDigit(CharAt(s, i))

\* the length of the longest run of characters satisfying the class, from index i
RECURSIVE RunOfNonSlash(_, _)
RunOfNonSlash(s, i) ==
  IF i <= Len(s) /\ CharAt(s, i) # "/" THEN 1 + RunOfNonSlash(s, i + 1) ELSE 0

RECURSIVE RunOfLowerHyphen(_, _)
RunOfLowerHyphen(s, i) ==
  IF i <= Len(s) /\ (IsLower(CharAt(s, i)) \/ CharAt(s, i) = "-")
  THEN 1 + RunOfLowerHyphen(s, i + 1) ELSE 0

(***************************************************************************)
(* The three regular expressions of the spider and urljoin.  A search      *)
(* result is <<>> (None) or <<group 1>>.                                   *)
(***************************************************************************)
IdYearLen == 4
IdNumLen == 5

\* re.search(r"/abs/([0-9]{4}\.[0-9]{5})", url)
AbsIdMatchAt(url, i) ==
  /\ Slice(url, i, i + 4) = "/abs/"
  /\ i + 4 + IdYearLen + 1 + IdNumLen <= Len(url)
  /\ AllDigits(Slice(url, i + 5, i + 4 + IdYearLen))
  /\ CharAt(url, i + 5 + IdYearLen) = "."
  /\ AllDigits(Slice(url, i + 6 + IdYearLen, i + 5 + IdYearLen + IdNumLen))

SearchAbsId(url) ==
  LET hits == {i \in 1..Len(url) : AbsIdMatchAt(url, i)}
      i == CHOOSE k \in hits : \A j \in hits : k <= j
  IN IF hits = {} THEN <<>> ELSE <<Slice(url, i + 5, i + 5 + IdYearLen + IdNumLen)>>

\* re.search(r"/list/([^/]+)/new", url): [^/]+ is greedy and must be followed by "/"
ListCatMatchAt(url, i) ==
  LET n == RunOfNonSlash(url, i + 6)
  IN /\ Slice(url, i, i + 5) = "/list/"
     /\ n >= 1
     /\ Slice(url, i + 6 + n, i + 9 + n) = "/new"

SearchListCat(url) ==
  LET hits == {i \in 1..Len(url) : ListCatMatchAt(url, i)}
      i == CHOOSE k \in hits : \A j \in hits : k <= j
  IN IF hits = {} THEN <<>> ELSE <<Slice(url, i + 6, i + 5 + RunOfNonSlash(url, i + 6))>>

\* re.findall(r"\(([a-z\-]+\.[A-Z]{2})\)", text), as the set the code turns it into
CodeMatchAt(text, i) ==
  LET n == RunOfLowerHyphen(text, i + 1)
  IN /\ CharAt(text, i) = "("
     /\ n >= 1
     /\ i + n + 4 <= Len(text)
     /\ CharAt(text, i + n + 1) = "."
     /\ IsUpper(CharAt(text, i + n + 2))
     /\ IsUpper(CharAt(text, i + n + 3))
     /\ CharAt(text, i + n + 4) = ")"

FindAllCodes(text) ==
  {Slice(text, i + 1, i + RunOfLowerHyphen(text, i + 1) + 3) :
     i \in {k \in 1..Len(text) : CodeMatchAt(text, k)}}

\* response.urljoin(href) for the reference forms of a listing page: an absolute
\* URL stands, a path-absolute reference takes the base's scheme and host, any
\* other reference replaces the last path segment of the base
SchemeAndHost(base) ==
  LET a == Find("://", base, 1)
      n == RunOfNonSlash(base, a + 3)
  IN Slice(base, 1, a + 2 + n)

RECURSIVE LastSlash(_, _)
LastSlash(s, i) == IF i = 0 \/ CharAt(s, i) = "/" THEN i ELSE LastSlash(s, i - 1)

UrlJoin(base, href) ==
  IF StartsWith(href, "http://") \/ StartsWith(href, "https://") THEN href
  ELSE IF StartsWith(href, "/") THEN SchemeAndHost(base) \o href
  ELSE Slice(base, 1, LastSlash(base, Len(base))) \o href

(***************************************************************************)
(* ArxivSpider.__init__ and the per-page context.                          *)
(***************************************************************************)
DefaultPriority == 99
SectionNew == 0
SectionCross == 1
SectionReplacement == 2
SectionOther == 3

\* self.CAT_PRIORITY.get(c, 99)
CatPriority(c) ==
  IF c = "math.QA" THEN 0 ELSE IF c = "math.RT" THEN 1 ELSE DefaultPriority

SourceCat(url) == LET m == SearchListCat(url) IN IF m = <<>> THEN "" ELSE m[1]

\* the h3 branch: the joined, stripped, lowered text of the heading
HeadingText(h3) == Lower(Strip(Concat(h3.text)))

\* faulty variant: any heading that mentions "cross" is taken for the cross section
ClassifyHeadingAnyCross(h3) ==
  LET heading == HeadingText(h3)
  IN IF Contains("new submission", heading) THEN SectionNew
     ELSE IF Contains("cross", heading) THEN SectionCross
     ELSE IF Contains("replacement", heading) THEN SectionReplacement
     ELSE SectionOther

ClassifyHeading(h3) ==
  LET heading == HeadingText(h3)
  IN IF Contains("new submission", heading) THEN SectionNew
     ELSE IF Contains("cross submission", heading) THEN SectionCross
     ELSE IF Contains("replacement", heading) THEN SectionReplacement
     ELSE SectionOther

(***************************************************************************)
(* One dt/dd pair.  A dt is its sequence of anchors [title, href]; a dd is *)
(* the text fragments of its .list-subjects region.                        *)
(***************************************************************************)
RECURSIVE FirstHref(_, _)
\* the href of the first anchor the selector matches, "" when none does (None)
FirstHref(anchors, primary) ==
  IF anchors = <<>> THEN ""
  ELSE LET a == Head(anchors)
       IN IF (primary /\ a.title = "Abstract") \/ (~primary /\ Contains("/abs/", a.href))
          THEN a.href
          ELSE FirstHref(Tail(anchors), primary)

AbsHref(dt) ==
  LET first == FirstHref(dt, TRUE)
  IN IF first = "" THEN FirstHref(dt, FALSE) ELSE first

RECURSIVE NonEmptyStripped(_)
NonEmptyStripped(parts) ==
  IF parts = <<>> THEN <<>>
  ELSE IF Strip(Head(parts)) = "" THEN NonEmptyStripped(Tail(parts))
  ELSE <<Strip(Head(parts))>> \o NonEmptyStripped(Tail(parts))

SubjectsText(dd) == Join(" ", NonEmptyStripped(dd))

\* faulty variant: only the first occurrence is replaced
PdfUrlFirstOnly(abs_url) == ReplaceFirst(abs_url, "/abs/", "/pdf/")

PdfUrl(abs_url) == Replace(abs_url, "/abs/", "/pdf/")

Candidate(arxiv_id, abs_url, dd, cat_priority, rank) ==
  [id |-> arxiv_id,
   abs |-> abs_url,
   pdf |-> PdfUrl(abs_url),
   categories |-> FindAllCodes(SubjectsText(dd)),
   cat_priority |-> cat_priority,
   section_rank |-> rank]

\* faulty variant: the membership test on seen_ids left out
ProcessEntryNoDedup(st, dt, dd, base, cat_priority) ==
  LET abs_href == AbsHref(dt)
      abs_url == UrlJoin(base, abs_href)
      mid == SearchAbsId(abs_url)
  IN IF abs_href = "" THEN st
     ELSE IF mid = <<>> THEN st
     ELSE [st EXCEPT !.seen = @ \cup {mid[1]},
                     !.items = Append(@, Candidate(mid[1], abs_url, dd, cat_priority, st.rank))]

\* faulty variant: the identifier is never added to seen_ids
ProcessEntryNoAdd(st, dt, dd, base, cat_priority) ==
  LET abs_href == AbsHref(dt)
      abs_url == UrlJoin(base, abs_href)
      mid == SearchAbsId(abs_url)
  IN IF abs_href = "" THEN st
     ELSE IF mid = <<>> THEN st
     ELSE IF mid[1] \in st.seen THEN st
     ELSE [st EXCEPT !.items = Append(@, Candidate(mid[1], abs_url, dd, cat_priority, st.rank))]

\* faulty variant: an entry whose URL does not match the pattern is not skipped
ProcessEntryNoSkipOnMismatch(st, dt, dd, base, cat_priority) ==
  LET abs_href == AbsHref(dt)
      abs_url == UrlJoin(base, abs_href)
      mid == SearchAbsId(abs_url)
      arxiv_id == IF mid = <<>> THEN "" ELSE mid[1]
  IN IF abs_href = "" THEN st
     ELSE IF arxiv_id \in st.seen THEN st
     ELSE [st EXCEPT !.seen = @ \cup {arxiv_id},
                     !.items = Append(@, Candidate(arxiv_id, abs_url, dd, cat_priority, st.rank))]

\* faulty variant: a later occurrence of an identifier of this page replaces its record
ProcessEntryLastWins(st, dt, dd, base, cat_priority) ==
  LET abs_href == AbsHref(dt)
      abs_url == UrlJoin(base, abs_href)
      mid == SearchAbsId(abs_url)
      rec == Candidate(mid[1], abs_url, dd, cat_priority, st.rank)
  IN IF abs_href = "" THEN st
     ELSE IF mid = <<>> THEN st
     ELSE IF mid[1] \in st.seen
          THEN [st EXCEPT !.items = [i \in DOMAIN @ |-> IF @[i].id = mid[1] THEN rec ELSE @[i]]]
     ELSE [st EXCEPT !.seen = @ \cup {mid[1]}, !.items = Append(@, rec)]

\* the body of the inner loop; st = [seen, items, rank]
ProcessEntry(st, dt, dd, base, cat_priority) ==
  LET abs_href == AbsHref(dt)
      abs_url == UrlJoin(base, abs_href)
      mid == SearchAbsId(abs_url)
  IN IF abs_href = "" THEN st
     ELSE IF mid = <<>> THEN st
     ELSE IF mid[1] \in st.seen THEN st
     ELSE [st EXCEPT !.seen = @ \cup {mid[1]},
                     !.items = Append(@, Candidate(mid[1], abs_url, dd, cat_priority, st.rank))]

Min(a, b) == IF a <= b THEN a ELSE b

\* for paper_dt, paper_dd in zip(dts, dds), from pair k on
RECURSIVE ProcessPairs(_, _, _, _, _)
ProcessPairs(st, dl, k, base, cat_priority) ==
  IF k > Min(Len(dl.dts), Len(dl.dds)) THEN st
  ELSE ProcessPairs(ProcessEntry(st, dl.dts[k], dl.dds[k], base, cat_priority),
                    dl, k + 1, base, cat_priority)

\* faulty variant: the current rank falls back to the default after each list block
ProcessSectionResetsRank(st, section, base, cat_priority) ==
  IF section.tag = "h3" THEN [st EXCEPT !.rank = ClassifyHeading(section)]
  ELSE IF section.tag # "dl" THEN st
  ELSE [ProcessPairs(st, section, 1, base, cat_priority) EXCEPT !.rank = SectionOther]

\* one h3 or dl child of #dlpage
ProcessSection(st, section, base, cat_priority) ==
  IF section.tag = "h3" THEN [st EXCEPT !.rank = ClassifyHeading(section)]
  ELSE IF section.tag # "dl" THEN st
  ELSE ProcessPairs(st, section, 1, base, cat_priority)

RECURSIVE ProcessSections(_, _, _, _)
ProcessSections(st, sections, base, cat_priority) ==
  IF sections = <<>> THEN st
  ELSE ProcessSections(ProcessSection(st, Head(sections), base, cat_priority),
                       Tail(sections), base, cat_priority)

(***************************************************************************)
(* list.sort(key=...): a stable insertion sort by one key at a time.       *)
(***************************************************************************)
\* a sorts strictly before b in the pass on key k
Before(k, a, b) ==
  IF k = "priority" THEN CatPriority(a) < CatPriority(b)
  ELSE IF k = "id" THEN StrLess(b.id, a.id)
  ELSE IF k = "section_rank" THEN a.section_rank < b.section_rank
  ELSE a.cat_priority < b.cat_priority

RECURSIVE Insert(_, _, _)
Insert(k, sorted, x) ==
  IF sorted = <<>> THEN <<x>>
  ELSE IF Before(k, x, Head(sorted)) THEN <<x>> \o sorted
  ELSE <<Head(sorted)>> \o Insert(k, Tail(sorted), x)

RECURSIVE StableSort(_, _)
StableSort(k, items) ==
  IF items = <<>> THEN <<>>
  ELSE Insert(k, StableSort(k, SubSeq(items, 1, Len(items) - 1)), items[Len(items)])

\* faulty variant: the three passes applied in the opposite order
SortItemsPassesReversed(items) ==
  StableSort("id", StableSort("section_rank", StableSort("cat_priority", items)))

SortItems(items) ==
  StableSort("cat_priority", StableSort("section_rank", StableSort("id", items)))

\* faulty variant: the set of seen identifiers is created anew for each page
ParsePageLocalSeen(response, seen) ==
  LET cat_priority == CatPriority(SourceCat(response.url))
      st == ProcessSections([seen |-> {}, items |-> <<>>, rank |-> SectionOther],
                            response.sections, response.url, cat_priority)
  IN [seen |-> st.seen, collected |-> st.items, items |-> SortItems(st.items)]

\* parse() up to its first yield: [seen, items] with items in output order
ParsePage(response, seen) ==
  LET cat_priority == CatPriority(SourceCat(response.url))
      st == ProcessSections([seen |-> seen, items |-> <<>>, rank |-> SectionOther],
                            response.sections, response.url, cat_priority)
  IN [seen |-> st.seen, collected |-> st.items, items |-> SortItems(st.items)]

\* it.pop("cat_priority"); it.pop("section_rank")
Finalize(it) == [id |-> it.id, abs |-> it.abs, pdf |-> it.pdf, categories |-> it.categories]

(***************************************************************************)
(* The run: configuration, the pages the site may serve, and the state.    *)
(***************************************************************************)
NumPages == 3
MaxChildren == 3

\* s.split(sep)
RECURSIVE Split(_, _)
Split(s, sep) ==
  LET i == Find(sep, s, 1)
  IN IF i = 0 THEN <<s>> ELSE <<Slice(s, 1, i - 1)>> \o Split(Drop(s, i + Len(sep) - 1), sep)

\* the value of the environment variable CATEGORIES: NumPages requested categories
RequestedCats == <<"math.RT", " math.QA", "cs.CV ", "math.RA", "hep-th">>
CATEGORIES == Join(",", SubSeq(RequestedCats, 1, Min(NumPages, Len(RequestedCats))))

\* cats = [c.strip() for c in categories.split(",") if c.strip()], then sorted
cats == StableSort("priority", NonEmptyStripped(Split(CATEGORIES, ",")))

start_urls == [i \in 1..Len(cats) |-> "https://arxiv.org/list/" \o cats[i] \o "/new"]

Gens == 1..Len(cats)

\* elements of a fetched page
H3(text) == [tag |-> "h3", text |-> text, dts |-> <<>>, dds |-> <<>>]
Dl(dts, dds) == [tag |-> "dl", text |-> <<>>, dts |-> dts, dds |-> dds]
Anchor(title, href) == [title |-> title, href |-> href]

\* dt elements: the usual one, one found by the fallback matcher only, one whose
\* path holds /abs/ twice, an absolute link to a paper already listed, one with
\* no abstract link, one with an old-style identifier
dtA == <<Anchor("Abstract", "/abs/2406.00001")>>
dtB == <<Anchor("Abstract", ""), Anchor("", "/abs/2406.00002v2")>>
dtC == <<Anchor("Abstract", "/abs/x/abs/2406.00010")>>
dtA2 == <<Anchor("Download PDF", "/pdf/2406.00001"), Anchor("Abstract", "https://arxiv.org/abs/2406.00001v3")>>
dtNoLink == <<Anchor("Download PDF", "/pdf/2406.00002")>>
dtOld == <<Anchor("Abstract", "/abs/math/0601001")>>

\* dd elements: the text fragments of .list-subjects
ddQA == <<"Subjects: ", " Quantum Algebra (math.QA)", "; (math.RT) ">>
ddRT == <<"Representation Theory (math.RT)">>
ddNone == <<>>

\* the headings of a detailed page (the "New submissions" heading is on the
\* small listing pages below)
Headings ==
  {<<"Cross", " submissions (showing 1 of 1 entries) ">>,
   <<"Replacement submissions">>,
   <<"Cross-lists for Mon, 3 Jun 24">>}

\* the last block has a dt more than it has dd
ListBlocks ==
  {Dl(<<dtA, dtB>>, <<ddQA, ddNone>>),
   Dl(<<dtA2>>, <<ddRT>>),
   Dl(<<dtNoLink, dtOld, dtC, dtB>>, <<ddQA, ddQA, ddRT>>)}

Sections == {H3(t) : t \in Headings} \cup ListBlocks

SeqsUpTo(S, n) == UNION {[1..k -> S] : k \in 0..n}

\* the h3/dl children of #dlpage a detailed listing page may have, in any order
RichPages == SeqsUpTo(Sections, MaxChildren)

\* small listing pages: a heading and one list block over two papers
ListingPages ==
  {<<>>} \cup
  {<<H3(<<"New submissions">>), Dl(dts, [i \in DOMAIN dts |-> ddQA])>> :
     dts \in {<<dtA>>, <<dtB, dtA>>, <<dtA, dtA2, dtB>>}}

NoResponse == [url |-> "", sections |-> <<>>]

VARIABLES
  seen_ids,       \* self.seen_ids
  pc,             \* per page: "unstarted", "suspended" (at the yield), "done"
  response,       \* per page: the response handed to parse
  collected,      \* per page: the local page_items as appended, before the sorts
  page_items,     \* per page: the local page_items after the three sorts
  pos,            \* per page: how many records the yield loop has returned
  out,            \* the output stream: [page, item] in the order yielded
  started,        \* history: the pages in the order parse began on them
  seen_at_start   \* history: self.seen_ids when parse began on the page

vars == <<seen_ids, pc, response, collected, page_items, pos, out, started, seen_at_start>>

Init ==
  /\ seen_ids = {}
  /\ pc = [g \in Gens |-> "unstarted"]
  /\ response = [g \in Gens |-> NoResponse]
  /\ collected = [g \in Gens |-> <<>>]
  /\ page_items = [g \in Gens |-> <<>>]
  /\ pos = [g \in Gens |-> 0]
  /\ out = <<>>
  /\ started = <<>>
  /\ seen_at_start = [g \in Gens |-> {}]

Idle == \A g \in Gens : pc[g] # "suspended"

\* the first resumption of parse(response): everything up to the first yield
StartParse(g, sections) ==
  LET r == [url |-> start_urls[g], sections |-> sections]
      res == ParsePage(r, seen_ids)
  IN /\ pc[g] = "unstarted"
     /\ response' = [response EXCEPT ![g] = r]
     /\ seen_ids' = res.seen
     /\ collected' = [collected EXCEPT ![g] = res.collected]
     /\ page_items' = [page_items EXCEPT ![g] = res.items]
     /\ started' = Append(started, g)
     /\ seen_at_start' = [seen_at_start EXCEPT ![g] = seen_ids]
     /\ IF res.items = <<>>
        THEN /\ pc' = [pc EXCEPT ![g] = "done"]
             /\ UNCHANGED <<pos, out>>
        ELSE /\ pc' = [pc EXCEPT ![g] = "suspended"]
             /\ pos' = [pos EXCEPT ![g] = 1]
             /\ out' = Append(out, [page |-> g, item |-> Finalize(res.items[1])])

\* a later resumption: the next record, or the end of the generator
Resume(g) ==
  /\ pc[g] = "suspended"
  /\ UNCHANGED <<seen_ids, response, collected, page_items, started, seen_at_start>>
  /\ IF pos[g] < Len(page_items[g])
     THEN /\ pos' = [pos EXCEPT ![g] = @ + 1]
          /\ out' = Append(out, [page |-> g, item |-> Finalize(page_items[g][pos[g] + 1])])
          /\ UNCHANGED pc
     ELSE /\ pc' = [pc EXCEPT ![g] = "done"]
          /\ UNCHANGED <<pos, out>>

\* the generators of the pages resumed in any interleaving
Fetch(g) == \E sections \in ListingPages : StartParse(g, sections)

Next == \E g \in Gens : Fetch(g) \/ Resume(g)

Spec == Init /\ [][Next]_vars

\* CONCURRENT_REQUESTS = 1: a page is begun only when no other is in progress
FetchSerial(g) == Idle /\ Fetch(g)

SerialNext == \E g \in Gens : FetchSerial(g) \/ Resume(g)

SerialSpec == Init /\ [][SerialNext]_vars

\* the first two start URLs in order, the second page any detailed page
FetchFirst == pc[1] = "unstarted" /\ Fetch(1)

FetchDetailed ==
  /\ pc[1] = "done"
  /\ \E sections \in RichPages : StartParse(2, sections)

PageNext == FetchFirst \/ FetchDetailed \/ \E g \in Gens : Resume(g)

PageSpec == Init /\ [][PageNext]_vars

(***************************************************************************)
(* Observers used by the properties: what a page holds, read off the       *)
(* response, and what the run has emitted.                                 *)
(***************************************************************************)
IdsOf(items) == {items[i].id : i \in DOMAIN items}

Emitted == {out[i].item.id : i \in DOMAIN out}

OutputOf(g) == SelectSeq(out, LAMBDA e : e.page = g)

OutputIds(g) == {out[i].item.id : i \in {j \in DOMAIN out : out[j].page = g}}

StartedPages == {started[i] : i \in DOMAIN started}

StartIndex(g) == CHOOSE i \in DOMAIN started : started[i] = g

StartedBefore(g, h) ==
  g \in StartedPages /\ h \in StartedPages /\ StartIndex(g) < StartIndex(h)

\* the positions <<c, k>> of the paired entries of a page: pair k of child c
PairPositions(r) ==
  UNION {{<<c, k>> : k \in 1..Min(Len(r.sections[c].dts), Len(r.sections[c].dds))} :
           c \in {d \in DOMAIN r.sections : r.sections[d].tag = "dl"}}

\* every h3 and dl element the pages of the model are made of
AllSections ==
  Sections \cup UNION {{page[c] : c \in DOMAIN page} : page \in ListingPages}

\* the identifier an entry with the given dt yields on a page with the given
\* URL, <<>> when it yields none; tabulated once over the elements of the model
EntryIdTable ==
  [u \in {start_urls[i] : i \in DOMAIN start_urls},
   dt \in UNION {{d.dts[k] : k \in DOMAIN d.dts} : d \in AllSections} |->
     IF AbsHref(dt) = "" THEN <<>> ELSE SearchAbsId(UrlJoin(u, AbsHref(dt)))]

EntryId(r, p) == EntryIdTable[r.url, r.sections[p[1]].dts[p[2]]]

ValidPositions(r) == {p \in PairPositions(r) : EntryId(r, p) # <<>>}

\* the identifiers that occur as a valid entry on the page
ValidIds(r) == {EntryId(r, p)[1] : p \in ValidPositions(r)}

DocBefore(p, q) == p[1] < q[1] \/ (p[1] = q[1] /\ p[2] < q[2])

(***************************************************************************)
(* C1: over the whole run no identifier is on two records of the output    *)
(* stream, and once every begun page has yielded all its records each      *)
(* identifier that occurred as a valid entry is on exactly one record.     *)
(***************************************************************************)
C1_OneRecordPerId ==
  /\ \A i, j \in DOMAIN out : out[i].item.id = out[j].item.id => i = j
  /\ Idle => \A g \in StartedPages : ValidIds(response[g]) \subseteq Emitted

C1_Witness ==
  /\ Idle
  /\ \E g, h \in StartedPages :
       /\ g # h
       /\ ValidIds(response[g]) \cap ValidIds(response[h]) # {}
       /\ \E p, q \in ValidPositions(response[g]) :
            p # q /\ EntryId(response[g], p) = EntryId(response[g], q)

(***************************************************************************)
(* C2 as stated: with pages processed one at a time, for every identifier  *)
(* and every two pages on which it is a valid entry, the page processed    *)
(* first of the two has it in its output and the other has not.            *)
(***************************************************************************)
C2_FirstOfEveryPairEmits ==
  \A g, h \in StartedPages :
    (StartedBefore(g, h) /\ pc[g] = "done" /\ pc[h] = "done") =>
      \A id \in ValidIds(response[g]) \cap ValidIds(response[h]) :
        id \in OutputIds(g) /\ id \notin OutputIds(h)

(***************************************************************************)
(* C2 amended: with pages processed one at a time, an identifier is in the *)
(* output of the first processed of all the pages on which it is a valid   *)
(* entry, and in the output of no page processed after that one.           *)
(***************************************************************************)
FirstPageWith(id) ==
  {g \in StartedPages :
     /\ id \in ValidIds(response[g])
     /\ \A h \in StartedPages : StartedBefore(h, g) => id \notin ValidIds(response[h])}

C2_FirstPageOfAllEmits ==
  \A g \in StartedPages :
    \A id \in ValidIds(response[g]) :
      /\ (g \in FirstPageWith(id) /\ pc[g] = "done") => id \in OutputIds(g)
      /\ g \notin FirstPageWith(id) => id \notin OutputIds(g)

C2_Witness ==
  \E g, h \in StartedPages :
    /\ StartedBefore(g, h) /\ pc[g] = "done" /\ pc[h] = "done"
    /\ \E id \in ValidIds(response[g]) \cap ValidIds(response[h]) :
         g \in FirstPageWith(id) /\ id \in OutputIds(g) /\ id \notin OutputIds(h)

(***************************************************************************)
(* C6: seen_ids starts empty, never loses an element, and whenever every   *)
(* begun page has yielded all its records it is exactly the set of the     *)
(* identifiers of the records emitted so far.                              *)
(***************************************************************************)
C6_SeenIsEmitted ==
  /\ seen_ids = {}
  /\ [][seen_ids \subseteq seen_ids']_vars
  /\ [](Idle => seen_ids = Emitted)

C6_Witness ==
  /\ Idle
  /\ Len(started) >= 2
  /\ Cardinality(seen_ids) >= 2
  /\ seen_at_start[started[2]] # {}

(***************************************************************************)
(* C10: a page's tests and insertions on seen_ids all happen in the step   *)
(* that begins it, before its first record is yielded: from then on every  *)
(* identifier of its records is in seen_ids, resuming a generator leaves   *)
(* seen_ids alone, and under any interleaving of the generators no two     *)
(* pages hold a record of the same identifier, the page begun first of     *)
(* those that list it being the one that holds it.                         *)
(***************************************************************************)
C10_ParsedBeforeYield ==
  /\ [](\A g \in StartedPages :
          /\ IdsOf(page_items[g]) \subseteq seen_ids
          /\ IdsOf(page_items[g]) = ValidIds(response[g]) \ seen_at_start[g]
          /\ \A h \in StartedPages :
               g # h => IdsOf(page_items[g]) \cap IdsOf(page_items[h]) = {}
          /\ \A id \in IdsOf(page_items[g]) : g \in FirstPageWith(id))
  /\ [][(started' = started) => (seen_ids' = seen_ids)]_vars

C10_Witness ==
  \E g, h \in StartedPages :
    /\ g # h
    /\ pc[g] = "suspended" /\ pc[h] = "suspended"
    /\ ValidIds(response[g]) \cap ValidIds(response[h]) # {}

(***************************************************************************)
(* What the page's structure says of an entry, read off the response.      *)
(***************************************************************************)
Max(S) == CHOOSE x \in S : \A y \in S : y <= x

\* the index of the most recent heading before child c, 0 when there is none
GoverningHeading(r, c) ==
  LET hs == {d \in 1..(c - 1) : r.sections[d].tag = "h3"}
  IN IF hs = {} THEN 0 ELSE Max(hs)

\* the rank each heading of the model sets, tabulated once
HeadingRankTable ==
  [h \in {d \in AllSections : d.tag = "h3"} |-> ClassifyHeading(h)]

GoverningRank(r, c) ==
  IF GoverningHeading(r, c) = 0 THEN SectionOther
  ELSE HeadingRankTable[r.sections[GoverningHeading(r, c)]]

\* the first position in document order at which the identifier is a valid entry
FirstPosition(r, id) ==
  LET ps == {p \in PairPositions(r) : EntryId(r, p) = <<id>>}
  IN CHOOSE p \in ps : \A q \in ps : ~DocBefore(q, p)

\* the entries that are not dropped when the page is parsed with seen0 seen
KeptPositions(r, seen0) ==
  {p \in ValidPositions(r) :
     EntryId(r, p)[1] \notin seen0 /\ p = FirstPosition(r, EntryId(r, p)[1])}

RECURSIVE InDocOrder(_)
InDocOrder(ps) ==
  IF ps = {} THEN <<>>
  ELSE LET p == CHOOSE x \in ps : \A y \in ps : ~DocBefore(y, x)
       IN <<p>> \o InDocOrder(ps \ {p})

(***************************************************************************)
(* C3: the records of a page are output in the order of the key            *)
(* (cat_priority ascending, section_rank ascending, identifier             *)
(* descending), and the three stable sorts give the order of one sort on   *)
(* that combined key.                                                      *)
(***************************************************************************)
KeyBefore(a, b) ==
  \/ a.cat_priority < b.cat_priority
  \/ /\ a.cat_priority = b.cat_priority
     /\ \/ a.section_rank < b.section_rank
        \/ a.section_rank = b.section_rank /\ StrLess(b.id, a.id)

RECURSIVE InsertByKey(_, _)
InsertByKey(sorted, x) ==
  IF sorted = <<>> THEN <<x>>
  ELSE IF KeyBefore(x, Head(sorted)) THEN <<x>> \o sorted
  ELSE <<Head(sorted)>> \o InsertByKey(Tail(sorted), x)

RECURSIVE SortByKey(_)
SortByKey(items) ==
  IF items = <<>> THEN <<>>
  ELSE InsertByKey(SortByKey(SubSeq(items, 1, Len(items) - 1)), items[Len(items)])

C3_OutputInKeyOrder ==
  \A g \in StartedPages :
    LET its == page_items[g]
    IN /\ OutputOf(g) = [i \in 1..pos[g] |-> [page |-> g, item |-> Finalize(its[i])]]
       /\ its = SortByKey(collected[g])
       /\ \A i, j \in DOMAIN its :
            /\ its[i].cat_priority < its[j].cat_priority => i < j
            /\ (its[i].cat_priority = its[j].cat_priority
                  /\ its[i].section_rank < its[j].section_rank) => i < j
            /\ (i # j /\ its[i].cat_priority = its[j].cat_priority
                  /\ its[i].section_rank = its[j].section_rank)
                 => (i < j <=> ~StrLess(its[i].id, its[j].id))

C3_Witness ==
  \E g \in StartedPages :
    LET its == page_items[g]
    IN /\ pc[g] = "done"
       /\ Len(its) >= 3
       /\ its # collected[g]
       /\ \E i, j \in DOMAIN its : its[i].section_rank # its[j].section_rank
       /\ \E i, j \in DOMAIN its :
            /\ i < j /\ its[i].section_rank = its[j].section_rank
            /\ \E k, l \in DOMAIN its :
                 k > l /\ collected[g][k] = its[i] /\ collected[g][l] = its[j]

(***************************************************************************)
(* C4 as stated: a heading with the text "Cross-lists for Mon, 3 Jun 24"   *)
(* sets rank 1 (CROSS), which the records of the list blocks after it      *)
(* carry until the next heading.                                           *)
(***************************************************************************)
CrossListsText == "Cross-lists for Mon, 3 Jun 24"

\* the records of page g whose list block is governed by a heading satisfying P
GovernedBy(g, P(_)) ==
  {i \in DOMAIN collected[g] :
     LET c == FirstPosition(response[g], collected[g][i].id)[1]
         h == GoverningHeading(response[g], c)
     IN h # 0 /\ P(response[g].sections[h])}

CrossListsHeadings ==
  {h \in DOMAIN HeadingRankTable : Concat(h.text) = CrossListsText}

CrossSubmissionsHeadings ==
  {h \in DOMAIN HeadingRankTable :
     /\ Contains("cross submission", Lower(Concat(h.text)))
     /\ ~Contains("new submission", Lower(Concat(h.text)))}

IsCrossLists(h3) == h3 \in CrossListsHeadings

IsCrossSubmissions(h3) == h3 \in CrossSubmissionsHeadings

C4_CrossListsRankedCross ==
  \A g \in StartedPages :
    \A i \in GovernedBy(g, IsCrossLists) : collected[g][i].section_rank = SectionCross

(***************************************************************************)
(* C4 amended: a heading with the text "Cross-lists for Mon, 3 Jun 24"     *)
(* holds none of the three matched phrases and sets rank 3 (OTHER), which  *)
(* the records of the list blocks after it carry until the next heading;   *)
(* rank 1 (CROSS) is set by a heading whose text holds "cross submission"  *)
(* and not "new submission".                                               *)
(***************************************************************************)
C4_CrossListsRankedOther ==
  \A g \in StartedPages :
    /\ \A i \in GovernedBy(g, IsCrossLists) : collected[g][i].section_rank = SectionOther
    /\ \A i \in GovernedBy(g, IsCrossSubmissions) : collected[g][i].section_rank = SectionCross

C4_Witness ==
  \E g \in StartedPages :
    /\ pc[g] = "done"
    /\ GovernedBy(g, IsCrossLists) # {}
    /\ \E c \in DOMAIN response[g].sections :
         /\ c > 1
         /\ response[g].sections[c].tag = "dl"
         /\ response[g].sections[c - 1].tag = "dl"
         /\ GoverningHeading(response[g], c) # 0
         /\ IsCrossLists(response[g].sections[GoverningHeading(response[g], c)])
         /\ \E i \in GovernedBy(g, IsCrossLists) :
              FirstPosition(response[g], collected[g][i].id)[1] = c

RECURSIVE Occurrences(_, _, _)
Occurrences(s, old, i) ==
  LET k == Find(old, s, i)
  IN IF k = 0 THEN {} ELSE {k} \cup Occurrences(s, old, k + Len(old))

C7_DroppedEntryNoEffect ==
  \A g \in StartedPages :
    LET r == response[g]
        kept == InDocOrder(KeptPositions(r, seen_at_start[g]))
    IN /\ Len(collected[g]) = Len(kept)
       /\ \A i \in DOMAIN kept :
            /\ collected[g][i].id = EntryId(r, kept[i])[1]
            /\ collected[g][i].section_rank = GoverningRank(r, kept[i][1])
       /\ g = started[Len(started)] =>
            seen_ids = seen_at_start[g] \cup {EntryId(r, kept[i])[1] : i \in DOMAIN kept}

C7_Witness ==
  \E g \in StartedPages :
    LET r == response[g]
        kept == KeptPositions(r, seen_at_start[g])
        FollowedByKept(p) == \E q \in kept : DocBefore(p, q)
    IN /\ pc[g] = "done"
       /\ \E p \in PairPositions(r) :
            AbsHref(r.sections[p[1]].dts[p[2]]) = "" /\ FollowedByKept(p)
       /\ \E p \in PairPositions(r) \ ValidPositions(r) :
            AbsHref(r.sections[p[1]].dts[p[2]]) # "" /\ FollowedByKept(p)
       /\ \E p \in ValidPositions(r) :
            EntryId(r, p)[1] \in seen_at_start[g] /\ FollowedByKept(p)

(***************************************************************************)
(* C8: whatever the order of the heading and list-block children, every    *)
(* candidate record carries the rank of the most recent heading before     *)
(* its list block, or OTHER (3) when no heading precedes it; records come  *)
(* from list entries only.                                                 *)
(***************************************************************************)
C8_RankOfLatestHeading ==
  \A g \in StartedPages :
    /\ IdsOf(collected[g]) \subseteq ValidIds(response[g])
    /\ Len(collected[g]) = Cardinality(IdsOf(collected[g]))
    /\ \A i \in DOMAIN collected[g] :
         collected[g][i].section_rank =
           GoverningRank(response[g], FirstPosition(response[g], collected[g][i].id)[1])

C8_Witness ==
  \E g \in StartedPages :
    LET r == response[g]
        blocks == {FirstPosition(r, collected[g][i].id)[1] : i \in DOMAIN collected[g]}
    IN \E c \in blocks :
         /\ c + 1 \in blocks
         /\ GoverningHeading(r, c) # 0
         /\ GoverningRank(r, c) # SectionOther

(***************************************************************************)
(* C9: when an identifier occurs in several entries of a page, its one     *)
(* record is that of the first occurrence in document order: the abs, pdf, *)
(* categories and section rank of that entry, a later occurrence under a   *)
(* heading of smaller rank changing neither the record nor its place in    *)
(* the sorted output.                                                      *)
(***************************************************************************)
\* the record an entry yields on a page with the given URL, up to its section
\* rank; tabulated once over the elements of the model
EntryRecordTable ==
  [u \in {start_urls[i] : i \in DOMAIN start_urls},
   dt \in UNION {{d.dts[k] : k \in DOMAIN d.dts} : d \in AllSections},
   dd \in UNION {{d.dds[k] : k \in DOMAIN d.dds} : d \in AllSections} |->
     IF EntryIdTable[u, dt] = <<>> THEN <<>>
     ELSE <<Candidate(EntryIdTable[u, dt][1], UrlJoin(u, AbsHref(dt)), dd,
                      CatPriority(SourceCat(u)), SectionOther)>>]

FirstOccurrenceRecord(r, id) ==
  LET p == FirstPosition(r, id)
      dl == r.sections[p[1]]
  IN [EntryRecordTable[r.url, dl.dts[p[2]], dl.dds[p[2]]][1]
        EXCEPT !.section_rank = GoverningRank(r, p[1])]

C9_FirstOccurrenceWins ==
  \A g \in StartedPages :
    LET firsts == [i \in DOMAIN collected[g] |->
                     FirstOccurrenceRecord(response[g], collected[g][i].id)]
    IN /\ collected[g] = firsts
       /\ page_items[g] = SortByKey(firsts)

C9_Witness ==
  \E g \in StartedPages :
    LET r == response[g]
    IN \E p, q \in ValidPositions(r) :
         /\ DocBefore(p, q)
         /\ EntryId(r, p) = EntryId(r, q)
         /\ p = FirstPosition(r, EntryId(r, p)[1])
         /\ EntryId(r, p)[1] \in IdsOf(page_items[g])
         /\ GoverningRank(r, q[1]) < GoverningRank(r, p[1])
         /\ r.sections[p[1]].dts[p[2]] # r.sections[q[1]].dts[q[2]]
         /\ Len(page_items[g]) >= 2

====
